---- MODULE Spec2Model ----
(***************************************************************************)
(* csv-peek: the pager of src/main.go (per-column width version, lines     *)
(* 1-533).  A file is a sequence of bytes; the pager keeps the OS file     *)
(* offset as its cursor, a horizontal shift, the per-column maximum        *)
(* widths and the lines it printed last.  Every keyboard command runs      *)
(* under the pager lock and ends with renderCSVWindow.                     *)
(*                                                                         *)
(* Bytes are "NL" (newline), "a" (any field byte) and "c" (the comma).     *)
(* Quotes and carriage returns are outside the modelled alphabet.          *)
(* Printable lines are sequences of glyph names, one per code point.       *)
(***************************************************************************)
EXTENDS Integers, Sequences, FiniteSets, TLC

VARIABLES file, pos, horizontalShift, maxWidth, prevPrintableLines,
          prevIsNil, termW, termH, kbd, buffer, sigPending, panicked,
          lock, sigpc, fwdLines, fwdLeft

vars == <<file, pos, horizontalShift, maxWidth, prevPrintableLines,
          prevIsNil, termW, termH, kbd, buffer, sigPending, panicked,
          lock, sigpc, fwdLines, fwdLeft>>

(***************************************************************************)
(* Bounds of the model.                                                    *)
(***************************************************************************)
\* longest file, in bytes
MaxLen == 3
\* longest file of the navigation specification, in bytes
MaxNavLen == 7
\* largest terminal height, in rows
MaxTermH == 4
\* largest terminal width, in cells
MaxTermW == 3
\* largest count a digit-prefixed jump can spell
MaxJumpN == 2

Bytes == {"NL", "a", "c"}

RECURSIVE FilesOfLen(_)
FilesOfLen(n) ==
    IF n = 0 THEN {<<>>}
    ELSE {Append(f, b) : f \in FilesOfLen(n - 1), b \in Bytes}

Files == UNION {FilesOfLen(n) : n \in 0..MaxLen}

RECURSIVE NavFilesOfLen(_)
NavFilesOfLen(n) ==
    IF n = 0 THEN {<<>>}
    ELSE {Append(f, b) : f \in NavFilesOfLen(n - 1), b \in {"NL", "a"}}

\* files without commas: the navigator tells newlines from other bytes only
NavFiles == UNION {NavFilesOfLen(n) : n \in 0..MaxNavLen}

(***************************************************************************)
(* Utilities (src/main.go 499-519).                                        *)
(***************************************************************************)
RECURSIVE sum(_)
sum(ns) == IF ns = <<>> THEN 0 ELSE Head(ns) + sum(Tail(ns))

min(x, y) == IF x < y THEN x ELSE y

max(x, y) == IF x > y THEN x ELSE y

\* strings.Repeat(x, n) for n >= 0
Repeat(x, n) == [i \in 1..n |-> x]

\* ns[lo:hi] of a Go slice (0-based, hi exclusive)
Slice(s, lo, hi) == [i \in 1..(hi - lo) |-> s[lo + i]]

\* the byte at 0-based offset off (File.ReadAt)
ByteAt(f, off) == f[off + 1]

(***************************************************************************)
(* The byte cursor navigator.                                              *)
(***************************************************************************)
RECURSIVE seekBackLineLoopNoText(_, _, _, _)
\* seekBackLine that returns at the second newline it meets, text or not
seekBackLineLoopNoText(f, res, enteredNL, enteredText) ==
    IF res <= 0 THEN 0
    ELSE LET b == ByteAt(f, res) IN
         IF b = "NL" /\ ~enteredNL
           THEN seekBackLineLoopNoText(f, res - 1, TRUE, enteredText)
         ELSE IF b = "NL"
           THEN res + 1
         ELSE seekBackLineLoopNoText(f, res - 1, enteredNL, enteredText)

RECURSIVE seekBackLineLoopOnNewline(_, _, _, _)
\* seekBackLine without the "res++" before it returns
seekBackLineLoopOnNewline(f, res, enteredNL, enteredText) ==
    IF res <= 0 THEN 0
    ELSE LET b == ByteAt(f, res) IN
         IF b = "NL" /\ ~enteredNL
           THEN seekBackLineLoopOnNewline(f, res - 1, TRUE, enteredText)
         ELSE IF b # "NL" /\ enteredNL
           THEN seekBackLineLoopOnNewline(f, res - 1, enteredNL, TRUE)
         ELSE IF b = "NL" /\ enteredText
           THEN res
         ELSE seekBackLineLoopOnNewline(f, res - 1, enteredNL, enteredText)

RECURSIVE seekBackLineLoopNoClamp(_, _, _, _)
\* seekBackLine that returns res, not 0, at the start of the file
seekBackLineLoopNoClamp(f, res, enteredNL, enteredText) ==
    IF res <= 0 THEN res
    ELSE LET b == ByteAt(f, res) IN
         IF b = "NL" /\ ~enteredNL
           THEN seekBackLineLoopNoClamp(f, res - 1, TRUE, enteredText)
         ELSE IF b # "NL" /\ enteredNL
           THEN seekBackLineLoopNoClamp(f, res - 1, enteredNL, TRUE)
         ELSE IF b = "NL" /\ enteredText
           THEN res + 1
         ELSE seekBackLineLoopNoClamp(f, res - 1, enteredNL, enteredText)

RECURSIVE seekBackLineLoop(_, _, _, _)
seekBackLineLoop(f, res, enteredNL, enteredText) ==
    IF res <= 0 THEN 0
    ELSE LET b == ByteAt(f, res) IN
         IF b = "NL" /\ ~enteredNL
           THEN seekBackLineLoop(f, res - 1, TRUE, enteredText)
         ELSE IF b # "NL" /\ enteredNL
           THEN seekBackLineLoop(f, res - 1, enteredNL, TRUE)
         ELSE IF b = "NL" /\ enteredText
           THEN res + 1
         ELSE seekBackLineLoop(f, res - 1, enteredNL, enteredText)

\* the file offset after Pager.seekBackLine called at offset p
seekBackLine(f, p) == seekBackLineLoop(f, p - 1, FALSE, FALSE)

RECURSIVE seekForwardLineLoop(_, _, _)
seekForwardLineLoop(f, res, enteredNL) ==
    IF res >= Len(f) THEN Len(f)
    ELSE LET b == ByteAt(f, res) IN
         IF b = "NL" /\ ~enteredNL
           THEN seekForwardLineLoop(f, res + 1, TRUE)
         ELSE IF b # "NL" /\ enteredNL
           THEN res
         ELSE seekForwardLineLoop(f, res + 1, enteredNL)

\* the file offset after Pager.seekForwardLine called at offset p
seekForwardLine(f, p) == seekForwardLineLoop(f, p, FALSE)

countLinesFitting(h) == h \div 2

(***************************************************************************)
(* encoding/csv as configured by getNewCSVReader: records are the          *)
(* non-empty lines, split at every comma; any number of fields per record. *)
(***************************************************************************)
RECURSIVE lineEnd(_, _)
\* offset of the first newline at or after off, or the end of the file
lineEnd(f, off) ==
    IF off >= Len(f) \/ ByteAt(f, off) = "NL" THEN off ELSE lineEnd(f, off + 1)

RECURSIVE splitFields(_, _)
\* the fields of one line; cur is the field being collected
splitFields(line, cur) ==
    IF line = <<>> THEN <<cur>>
    ELSE IF Head(line) = "c" THEN <<cur>> \o splitFields(Tail(line), <<>>)
    ELSE splitFields(Tail(line), Append(cur, Head(line)))

RECURSIVE csvRead(_, _, _)
\* up to k records read from offset off
csvRead(f, off, k) ==
    IF k <= 0 \/ off >= Len(f) THEN <<>>
    ELSE LET e == lineEnd(f, off) IN
         IF e = off THEN csvRead(f, e + 1, k)
         ELSE <<splitFields(Slice(f, off, e), <<>>)>> \o csvRead(f, e + 1, k - 1)

\* the file offset the csv reader leaves behind after up to k calls of Read
\* at offset p: the first Read fills the reader's buffer (4096 bytes) from
\* the file, which takes in the rest of a file of the modelled sizes
readerOffset(f, p, k) == IF k > 0 THEN Len(f) ELSE p

\* Pager.countLinesAvailable at offset p: the number of records counted
countLinesAvailable(f, p, h) == Len(csvRead(f, p, countLinesFitting(h)))

\* the deferred p.file.Seek(s, io.SeekStart) of countLinesAvailable, which
\* runs with the file at offset cur
countLinesAvailableDefer(s, cur) == s

\* Pager.countLinesAvailable at offset p: the file offset it leaves
countLinesAvailableOffset(f, p, h) ==
    countLinesAvailableDefer(p, readerOffset(f, p, countLinesFitting(h)))

RECURSIVE forwardLines(_, _, _)
\* n calls of seekForwardLine
forwardLines(f, p, n) ==
    IF n <= 0 THEN p ELSE forwardLines(f, seekForwardLine(f, p), n - 1)

RECURSIVE backOff(_, _, _, _)
\* the loop "for p.countLinesAvailable() < lines { p.seekBackLine() }"
backOff(f, p, lines, h) ==
    IF countLinesAvailable(f, p, h) < lines
      THEN backOff(f, seekBackLine(f, countLinesAvailableOffset(f, p, h)), lines, h)
      ELSE countLinesAvailableOffset(f, p, h)

seekForwardN(f, p, n, h) ==
    LET lines == countLinesAvailable(f, p, h)
    IN  backOff(f, forwardLines(f, countLinesAvailableOffset(f, p, h), n), lines, h)

RECURSIVE seekBackwardN(_, _, _)
seekBackwardN(f, p, n) ==
    IF n <= 0 THEN p ELSE seekBackwardN(f, seekBackLine(f, p), n - 1)

seekStart(f, p) == 0

seekEnd(f, p, h) == seekBackwardN(f, Len(f), countLinesFitting(h))

(***************************************************************************)
(* The windowed record reader.                                             *)
(***************************************************************************)
\* readLines that stores the width of the record read last, not the maximum
widenOverwrite(mw, record) ==
    LET n == max(Len(mw), Len(record))
    IN  [i \in 1..n |->
            LET old == IF i <= Len(mw) THEN mw[i] ELSE 0
            IN  IF i <= Len(record) THEN Len(record[i]) ELSE old]

\* "for len(record) > len(p.maxWidth) { append 0 }" then the running maximum
widen(mw, record) ==
    LET n == max(Len(mw), Len(record))
    IN  [i \in 1..n |->
            LET old == IF i <= Len(mw) THEN mw[i] ELSE 0
            IN  IF i <= Len(record) THEN max(old, Len(record[i])) ELSE old]

RECURSIVE widenAll(_, _)
widenAll(mw, records) ==
    IF records = <<>> THEN mw
    ELSE widenAll(widen(mw, Head(records)), Tail(records))

\* the deferred Seek of readLines left out: the file stays where the reader
\* left it
readLinesDeferNoSeek(s, cur) == cur

\* the deferred p.file.Seek(s, io.SeekStart) of readLines, which runs with
\* the file at offset cur
readLinesDefer(s, cur) == s

\* what readLines leaves: the window res, the widths after reading it and
\* the file offset p
readRecords(res, p, mw) == [res |-> res, maxWidth |-> widenAll(mw, res), pos |-> p]

\* Pager.readLines at offset p
readLines(f, p, h, mw) ==
    readRecords(csvRead(f, p, countLinesFitting(h)),
                readLinesDefer(p, readerOffset(f, p, countLinesFitting(h))), mw)

(***************************************************************************)
(* The table renderer.                                                     *)
(***************************************************************************)
countMaxJoinedLength(mw) == sum([i \in 1..Len(mw) |-> mw[i] + 1]) + 1

RECURSIVE getTableLineLoop(_, _, _, _, _, _, _)
getTableLineLoop(mw, length, i, j, start, middle, end) ==
    IF i >= length THEN <<>>
    ELSE IF i = 0
      THEN <<start>> \o getTableLineLoop(mw, length, i + 1, j, start, middle, end)
    ELSE IF i = length - 1
      THEN <<end>> \o getTableLineLoop(mw, length, i + 1, j, start, middle, end)
    ELSE IF sum(Slice(mw, 0, j + 1)) + (j + 1) = i
      THEN <<middle>> \o getTableLineLoop(mw, length, i + 1, j + 1, start, middle, end)
    ELSE <<"H">> \o getTableLineLoop(mw, length, i + 1, j, start, middle, end)

getTableLine(mw, start, middle, end) ==
    getTableLineLoop(mw, countMaxJoinedLength(mw), 0, 0, start, middle, end)

getTableHeaderLine(mw) == getTableLine(mw, "TL", "TJ", "TR")

getTableFooterLine(mw) == getTableLine(mw, "BL", "BJ", "BR")

getDataLine(mw) == getTableLine(mw, "ML", "MJ", "MR")

padString(input, length) ==
    IF Len(input) = length THEN input
    ELSE Repeat("SP", length - Len(input)) \o input

RECURSIVE getDataFieldsLoop(_, _, _)
getDataFieldsLoop(line, mw, i) ==
    IF i > Len(line) THEN <<>>
    ELSE padString(line[i], mw[i]) \o <<"V">> \o getDataFieldsLoop(line, mw, i + 1)

getDataFields(line, mw) == <<"V">> \o getDataFieldsLoop(line, mw, 1)

RECURSIVE appendRecords(_, _, _, _, _)
\* the loop over the records, which stops once the window has height lines
appendRecords(window, lines, mw, dataFooter, height) ==
    IF lines = <<>> \/ Len(window) >= height THEN window
    ELSE appendRecords(window \o <<getDataFields(Head(lines), mw), dataFooter>>,
                       Tail(lines), mw, dataFooter, height)

\* rpl[shift : min(len(rpl), shift+width)] is in range
truncateOk(rpl, shift, width) == shift <= min(Len(rpl), shift + width)

\* the truncation with an end one code point too far
truncateOneMore(rpl, shift, width) ==
    Slice(rpl, shift, min(Len(rpl), shift + width + 1))

truncate(rpl, shift, width) == Slice(rpl, shift, min(Len(rpl), shift + width))

\* "window[len(window)-1] = footer", then the truncation for height
closeWindow(filled, footer, height) ==
    SubSeq([filled EXCEPT ![Len(filled)] = footer], 1, min(height, Len(filled)))

\* the truncation for width: ok is FALSE when a slice expression panics
truncateWindow(window, shift, width) ==
    IF \A i \in 1..Len(window) : truncateOk(window[i], shift, width)
      THEN [ok |-> TRUE,
            window |-> [i \in 1..Len(window) |-> truncate(window[i], shift, width)]]
      ELSE [ok |-> FALSE, window |-> <<>>]

\* Pager.getPrintableLines
getPrintableLines(lines, mw, shift, width, height) ==
    truncateWindow(
        closeWindow(appendRecords(<<getTableHeaderLine(mw)>>, lines, mw,
                                  getDataLine(mw), height),
                    getTableFooterLine(mw), height),
        shift, width)

\* the second half of renderCSVWindow, on the result rd of readLines
renderLines(rd, pl) ==
    [ok |-> pl.ok, maxWidth |-> rd.maxWidth, printableLines |-> pl.window,
     pos |-> rd.pos]

renderWindow(rd, s, width, height) ==
    renderLines(rd, getPrintableLines(rd.res, rd.maxWidth, s, width, height))

\* Pager.renderCSVWindow at offset p with shift s: what it leaves in the pager
renderCSVWindow(f, p, s, mw, width, height) ==
    renderWindow(readLines(f, p, height, mw), s, width, height)

(***************************************************************************)
(* The terminal.  It holds one glyph per cell ("SP" in a cell nothing was  *)
(* written to) and a cursor at row, col, both 0-based; col = width after a *)
(* glyph was written to the last column, and the next glyph then starts    *)
(* the next row.  A line feed in the last row scrolls.  "\n" is output as  *)
(* carriage return and line feed.  The window is the top left height rows  *)
(* of width cells of a grid of MaxTermH rows of MaxTermW cells.            *)
(***************************************************************************)
blankRow == Repeat("SP", MaxTermW)

\* the display after "\033[2J", the cursor at the top left
blankTerm == [cells |-> Repeat(blankRow, MaxTermH), row |-> 0, col |-> 0]

carriageReturn(t) == [t EXCEPT !.col = 0]

\* the rows of the window move up by one and its last row is blank
scroll(cells, height) ==
    [r \in 1..MaxTermH |-> IF r < height THEN cells[r + 1]
                           ELSE IF r = height THEN blankRow ELSE cells[r]]

lineFeed(t, height) ==
    IF t.row + 1 < height THEN [t EXCEPT !.row = @ + 1]
    ELSE [t EXCEPT !.cells = scroll(@, height)]

\* "\n"
printNewline(t, width, height) == carriageReturn(lineFeed(t, height))

putGlyph(t, g) ==
    [t EXCEPT !.cells[t.row + 1][t.col + 1] = g, !.col = @ + 1]

\* one code point written at the cursor
printGlyph(t, g, width, height) ==
    putGlyph(IF t.col >= width THEN printNewline(t, width, height) ELSE t, g)

RECURSIVE printString(_, _, _, _)
printString(t, s, width, height) ==
    IF s = <<>> THEN t
    ELSE printString(printGlyph(t, Head(s), width, height), Tail(s),
                     width, height)

RECURSIVE printJoined(_, _, _, _)
\* fmt.Print(strings.Join(printableLines, "\n"))
printJoined(t, lines, width, height) ==
    IF lines = <<>> THEN t
    ELSE IF Len(lines) = 1 THEN printString(t, lines[1], width, height)
    ELSE printJoined(printNewline(printString(t, lines[1], width, height),
                                  width, height),
                     Tail(lines), width, height)

\* Pager.cursorTopLeftTerm: "\033[H"
cursorTopLeftTerm(t) == [t EXCEPT !.row = 0, !.col = 0]

\* Pager.clearTerm: "\033[H\033[2J"
clearTerm(t) == blankTerm

\* the bytes of a glyph in UTF-8: the box-drawing glyphs take three
glyphBytes(g) ==
    IF g \in {"TL", "TJ", "TR", "BL", "BJ", "BR", "ML", "MJ", "MR", "H", "V"}
      THEN 3 ELSE 1

RECURSIVE len(_)
\* len(s) of a Go string: its length in bytes
len(s) == IF s = <<>> THEN 0 ELSE glyphBytes(Head(s)) + len(Tail(s))

\* the condition of renderCSVWindow under which it calls clearTerm
needsClear(prevNil, prev, printableLines) ==
    \/ prevNil
    \/ Len(printableLines) # Len(prev)
    \/ (Len(printableLines) > 0 /\ len(printableLines[1]) # len(prev[1]))

\* the terminal output of renderCSVWindow once getPrintableLines returned,
\* on a terminal t
drawWindow(t, prevNil, prev, printableLines, width, height) ==
    printJoined(IF needsClear(prevNil, prev, printableLines)
                  THEN clearTerm(cursorTopLeftTerm(t))
                  ELSE cursorTopLeftTerm(t),
                printableLines, width, height)

(***************************************************************************)
(* Horizontal panning.                                                     *)
(***************************************************************************)
RECURSIVE currentFieldIndexLoop(_, _, _, _)
currentFieldIndexLoop(shift, mw, i, cum) ==
    IF i >= Len(mw)
      THEN IF shift = cum THEN Len(mw) - 1 ELSE 0
    ELSE LET w == mw[i + 1] IN
         IF shift - i >= cum /\ shift - i < cum + w THEN i
         ELSE currentFieldIndexLoop(shift, mw, i + 1, cum + w)

currentFieldIndex(shift, mw) == currentFieldIndexLoop(shift, mw, 0, 0)

\* p.maxWidth[i] is in range
indexOk(mw, i) == 0 <= i /\ i < Len(mw)

\* Pager.moveToLeft: ok is FALSE when p.maxWidth[i-1] panics
moveToLeft(shift, mw) ==
    LET i == currentFieldIndex(shift, mw) IN
    IF i = 0 THEN [ok |-> TRUE, shift |-> 0]
    ELSE IF ~indexOk(mw, i - 1) THEN [ok |-> FALSE, shift |-> shift]
    ELSE [ok |-> TRUE, shift |-> max(0, shift - mw[i] - 1)]

\* Pager.moveToRight: ok is FALSE when p.maxWidth[i] panics
moveToRight(shift, mw, width) ==
    LET length == countMaxJoinedLength(mw)
        i      == currentFieldIndex(shift, mw)
    IN  IF length - shift <= width THEN [ok |-> TRUE, shift |-> shift]
        ELSE IF ~indexOk(mw, i) THEN [ok |-> FALSE, shift |-> shift]
        ELSE [ok |-> TRUE, shift |-> shift + mw[i + 1] + 1]

(***************************************************************************)
(* The program: main, keyboardHandler, handleLineJump and handleSignals.   *)
(* kbd is the position of the main goroutine: "start" before the first     *)
(* render, "idle" in keyboard.GetKey of keyboardHandler with the lock      *)
(* free, "jump" in keyboard.GetKey of handleLineJump with the lock held,   *)
(* "quit" after the loop was left.  lock is the holder of the pager's       *)
(* sync.Mutex.  sigpc, fwdLines and fwdLeft belong to the step-by-step     *)
(* description of the handlers further down; here a handler is one step,   *)
(* which the lock makes it.                                                *)
(***************************************************************************)
Init ==
    /\ file \in Files
    /\ pos = 0
    /\ horizontalShift = 0
    /\ maxWidth = <<>>
    /\ prevPrintableLines = <<>>
    /\ prevIsNil = TRUE
    /\ termW \in 1..MaxTermW
    /\ termH \in 1..MaxTermH
    /\ kbd = "start"
    /\ buffer = 0
    /\ sigPending = FALSE
    /\ panicked = FALSE
    /\ lock = "free"
    /\ sigpc = "recv"
    /\ fwdLines = 0
    /\ fwdLeft = 0

\* pager.renderCSVWindow() at offset p and shift s, the end of every handler
Render(p, s) ==
    \E r \in {renderCSVWindow(file, p, s, maxWidth, termW, termH)} :
    /\ pos' = r.pos
    /\ horizontalShift' = s
    /\ maxWidth' = r.maxWidth
    /\ prevPrintableLines' = IF r.ok THEN r.printableLines ELSE prevPrintableLines
    /\ prevIsNil' = IF r.ok THEN FALSE ELSE prevIsNil
    /\ panicked' = ~r.ok

\* a command that panicked before it reached the render
Panic ==
    /\ panicked' = TRUE
    /\ UNCHANGED <<pos, horizontalShift, maxWidth, prevPrintableLines, prevIsNil>>

\* main: the first render, then the handlers are installed
FirstRender ==
    /\ kbd = "start" /\ ~panicked
    /\ Render(pos, horizontalShift)
    /\ kbd' = "idle"
    /\ UNCHANGED <<file, termW, termH, buffer, sigPending,
                   lock, sigpc, fwdLines, fwdLeft>>

\* a key read by keyboardHandler while no jump is being typed
Idle == kbd = "idle" /\ ~panicked

KeyFrame ==
    UNCHANGED <<file, termW, termH, kbd, buffer, sigPending,
                lock, sigpc, fwdLines, fwdLeft>>

\* KeyArrowUp, 'k'
LineBackward ==
    /\ Idle
    /\ Render(seekBackwardN(file, pos, 1), horizontalShift)
    /\ KeyFrame

\* KeyArrowDown, 'j'
LineForward ==
    /\ Idle
    /\ Render(seekForwardN(file, pos, 1, termH), horizontalShift)
    /\ KeyFrame

\* KeyArrowLeft, 'h'
PanLeft ==
    /\ Idle
    /\ \E m \in {moveToLeft(horizontalShift, maxWidth)} :
          IF m.ok THEN Render(pos, m.shift) ELSE Panic
    /\ KeyFrame

\* KeyArrowRight, 'l'
PanRight ==
    /\ Idle
    /\ \E m \in {moveToRight(horizontalShift, maxWidth, termW)} :
          IF m.ok THEN Render(pos, m.shift) ELSE Panic
    /\ KeyFrame

\* KeyCtrlN
PageForward ==
    /\ Idle
    /\ Render(seekForwardN(file, pos, countLinesFitting(termH), termH), horizontalShift)
    /\ KeyFrame

\* KeyCtrlP
PageBackward ==
    /\ Idle
    /\ Render(seekBackwardN(file, pos, countLinesFitting(termH)), horizontalShift)
    /\ KeyFrame

\* KeySpace
HalfPageForward ==
    /\ Idle
    /\ Render(seekForwardN(file, pos, countLinesFitting(termH) \div 2, termH),
              horizontalShift)
    /\ KeyFrame

\* 'G'
JumpToEnd ==
    /\ Idle
    /\ Render(seekEnd(file, pos, termH), horizontalShift)
    /\ KeyFrame

\* 'g'
JumpToStart ==
    /\ Idle
    /\ Render(seekStart(file, pos), horizontalShift)
    /\ KeyFrame

\* a key no case of the two switches names
OtherKey ==
    /\ Idle
    /\ Render(pos, horizontalShift)
    /\ KeyFrame

\* KeyCtrlC, 'q': break outerLoop
Quit ==
    /\ Idle
    /\ kbd' = "quit"
    /\ lock' = "kbd"
    /\ UNCHANGED <<file, pos, horizontalShift, maxWidth, prevPrintableLines,
                   prevIsNil, termW, termH, buffer, sigPending, panicked,
                   sigpc, fwdLines, fwdLeft>>

\* a digit: handleLineJump starts and waits for the next key, lock held
DigitStart(d) ==
    /\ Idle
    /\ kbd' = "jump"
    /\ buffer' = d
    /\ lock' = "kbd"
    /\ UNCHANGED <<file, pos, horizontalShift, maxWidth, prevPrintableLines,
                   prevIsNil, termW, termH, sigPending, panicked,
                   sigpc, fwdLines, fwdLeft>>

\* a further digit in handleLineJump
DigitMore(d) ==
    /\ kbd = "jump" /\ ~panicked
    /\ buffer * 10 + d <= MaxJumpN
    /\ buffer' = buffer * 10 + d
    /\ UNCHANGED <<file, pos, horizontalShift, maxWidth, prevPrintableLines,
                   prevIsNil, termW, termH, kbd, sigPending, panicked,
                   lock, sigpc, fwdLines, fwdLeft>>

JumpFrame ==
    /\ kbd' = "idle"
    /\ buffer' = 0
    /\ lock' = "free"
    /\ UNCHANGED <<file, termW, termH, sigPending, sigpc, fwdLines, fwdLeft>>

\* KeyArrowDown, 'j' after the digits
JumpDown ==
    /\ kbd = "jump" /\ ~panicked
    /\ Render(seekForwardN(file, pos, buffer, termH), horizontalShift)
    /\ JumpFrame

\* KeyArrowUp, 'k' after the digits
JumpUp ==
    /\ kbd = "jump" /\ ~panicked
    /\ Render(seekBackwardN(file, pos, buffer), horizontalShift)
    /\ JumpFrame

\* any other key after the digits: handleLineJump returns without moving
JumpOther ==
    /\ kbd = "jump" /\ ~panicked
    /\ Render(pos, horizontalShift)
    /\ JumpFrame

\* the terminal is resized; SIGWINCH is queued once signal.Notify was called
TermResize(w, h) ==
    /\ kbd # "quit" /\ ~panicked
    /\ <<w, h>> # <<termW, termH>>
    /\ termW' = w
    /\ termH' = h
    /\ sigPending' = IF kbd = "start" THEN sigPending ELSE TRUE
    /\ UNCHANGED <<file, pos, horizontalShift, maxWidth, prevPrintableLines,
                   prevIsNil, kbd, buffer, panicked,
                   lock, sigpc, fwdLines, fwdLeft>>

\* handleSignals: SIGWINCH taken from the channel, render under the lock
HandleWinch ==
    /\ sigPending /\ kbd = "idle" /\ ~panicked
    /\ Render(pos, horizontalShift)
    /\ sigPending' = FALSE
    /\ UNCHANGED <<file, termW, termH, kbd, buffer,
                   lock, sigpc, fwdLines, fwdLeft>>

Next ==
    \/ FirstRender
    \/ LineBackward
    \/ LineForward
    \/ PanLeft
    \/ PanRight
    \/ PageForward
    \/ PageBackward
    \/ HalfPageForward
    \/ JumpToEnd
    \/ JumpToStart
    \/ OtherKey
    \/ Quit
    \/ \E d \in 0..MaxJumpN : DigitStart(d)
    \/ \E d \in 0..MaxJumpN : DigitMore(d)
    \/ JumpDown
    \/ JumpUp
    \/ JumpOther
    \/ \E w \in 1..MaxTermW, h \in 1..MaxTermH : TermResize(w, h)
    \/ HandleWinch

Spec == Init /\ [][Next]_vars

TypeOK ==
    /\ pos \in 0..Len(file)
    /\ horizontalShift \in Nat
    /\ kbd \in {"start", "idle", "jump", "quit",
                "switch", "forward", "backoff", "render"}
    /\ lock \in {"free", "kbd", "sig"}
    /\ sigpc \in {"recv", "lock", "render"}
    /\ fwdLines \in 0..countLinesFitting(MaxTermH)
    /\ fwdLeft \in 0..max(MaxJumpN, countLinesFitting(MaxTermH))

(***************************************************************************)
(* SpecNav: the program on longer files of one column; the terminal keeps  *)
(* its width and changes its height.                                       *)
(***************************************************************************)
InitNav ==
    /\ file \in NavFiles
    /\ pos = 0
    /\ horizontalShift = 0
    /\ maxWidth = <<>>
    /\ prevPrintableLines = <<>>
    /\ prevIsNil = TRUE
    /\ termW = MaxTermW
    /\ termH \in 1..MaxTermH
    /\ kbd = "start"
    /\ buffer = 0
    /\ sigPending = FALSE
    /\ panicked = FALSE
    /\ lock = "free"
    /\ sigpc = "recv"
    /\ fwdLines = 0
    /\ fwdLeft = 0

NextNav ==
    \/ FirstRender
    \/ LineBackward
    \/ LineForward
    \/ PanLeft
    \/ PanRight
    \/ PageForward
    \/ PageBackward
    \/ HalfPageForward
    \/ JumpToEnd
    \/ JumpToStart
    \/ \E d \in 0..MaxJumpN : DigitStart(d)
    \/ \E d \in 0..MaxJumpN : DigitMore(d)
    \/ JumpDown
    \/ JumpUp
    \/ JumpOther
    \/ OtherKey
    \/ Quit
    \/ \E h \in 1..MaxTermH : TermResize(termW, h)
    \/ HandleWinch

SpecNav == InitNav /\ [][NextNav]_vars

(***************************************************************************)
(* SpecPan: the right arrow pressed again and again from the first render. *)
(***************************************************************************)
NextPan == FirstRender \/ PanRight

SpecPan == Init /\ [][NextPan]_vars

(***************************************************************************)
(* SpecKeys: the keyboard alone; the terminal keeps the size it has when   *)
(* the program starts.                                                     *)
(***************************************************************************)
NextKeys ==
    \/ FirstRender
    \/ LineBackward
    \/ LineForward
    \/ PanLeft
    \/ PanRight
    \/ PageForward
    \/ PageBackward
    \/ HalfPageForward
    \/ JumpToEnd
    \/ JumpToStart
    \/ OtherKey
    \/ Quit
    \/ \E d \in 0..MaxJumpN : DigitStart(d)
    \/ \E d \in 0..MaxJumpN : DigitMore(d)
    \/ JumpDown
    \/ JumpUp
    \/ JumpOther

SpecKeys == Init /\ [][NextKeys]_vars

(***************************************************************************)
(* SpecStep: the two goroutines step by step.  The keyboard goroutine      *)
(* takes the lock ("switch"), runs its command and renders ("render");     *)
(* seekForwardN runs call by call ("forward", "backoff"), each call        *)
(* reading the terminal size of the moment.  handleSignals takes SIGWINCH  *)
(* from the channel (sigpc "lock"), takes the lock ("render"), renders and *)
(* releases it.  The terminal keeps its width and changes its height at    *)
(* any moment.                                                             *)
(***************************************************************************)
\* a Lock() that returns whoever holds the mutex
canLockAlways(l) == TRUE

\* sync.Mutex: Lock() returns once nobody holds the mutex
canLock(l) == l = "free"

InitStep ==
    /\ file \in Files
    /\ pos = 0
    /\ horizontalShift = 0
    /\ maxWidth = <<>>
    /\ prevPrintableLines = <<>>
    /\ prevIsNil = TRUE
    /\ termW = MaxTermW
    /\ termH \in 1..MaxTermH
    /\ kbd = "start"
    /\ buffer = 0
    /\ sigPending = FALSE
    /\ panicked = FALSE
    /\ lock = "free"
    /\ sigpc = "recv"
    /\ fwdLines = 0
    /\ fwdLeft = 0

\* keyboard.GetKey returned a key and pager.Lock() returned
KbdLock ==
    /\ kbd = "idle" /\ ~panicked
    /\ canLock(lock)
    /\ lock' = "kbd"
    /\ kbd' = "switch"
    /\ UNCHANGED <<file, pos, horizontalShift, maxWidth, prevPrintableLines,
                   prevIsNil, termW, termH, buffer, sigPending, panicked,
                   sigpc, fwdLines, fwdLeft>>

\* a command has moved the cursor to p and the shift to s; the render is next
KbdMove(p, s) ==
    /\ pos' = p
    /\ horizontalShift' = s
    /\ kbd' = "render"
    /\ buffer' = 0
    /\ UNCHANGED <<file, maxWidth, prevPrintableLines, prevIsNil, termW, termH,
                   sigPending, panicked, lock, sigpc, fwdLines, fwdLeft>>

\* a command has panicked under the lock
KbdPanic ==
    /\ panicked' = TRUE
    /\ UNCHANGED <<file, pos, horizontalShift, maxWidth, prevPrintableLines,
                   prevIsNil, termW, termH, kbd, buffer, sigPending,
                   lock, sigpc, fwdLines, fwdLeft>>

\* seekForwardN(n) up to its first loop: lines := p.countLinesAvailable()
KbdForward(n) ==
    /\ fwdLines' = countLinesAvailable(file, pos, termH)
    /\ pos' = countLinesAvailableOffset(file, pos, termH)
    /\ fwdLeft' = n
    /\ kbd' = IF n = 0 THEN "backoff" ELSE "forward"
    /\ buffer' = 0
    /\ UNCHANGED <<file, horizontalShift, maxWidth, prevPrintableLines,
                   prevIsNil, termW, termH, sigPending, panicked, lock, sigpc>>

KbdSwitch == kbd = "switch" /\ ~panicked

KbdLineBackward == KbdSwitch /\ KbdMove(seekBackwardN(file, pos, 1), horizontalShift)

KbdLineForward == KbdSwitch /\ KbdForward(1)

KbdPanLeft ==
    /\ KbdSwitch
    /\ \E m \in {moveToLeft(horizontalShift, maxWidth)} :
          IF m.ok THEN KbdMove(pos, m.shift) ELSE KbdPanic

KbdPanRight ==
    /\ KbdSwitch
    /\ \E m \in {moveToRight(horizontalShift, maxWidth, termW)} :
          IF m.ok THEN KbdMove(pos, m.shift) ELSE KbdPanic

KbdPageForward == KbdSwitch /\ KbdForward(countLinesFitting(termH))

KbdPageBackward ==
    KbdSwitch /\ KbdMove(seekBackwardN(file, pos, countLinesFitting(termH)),
                         horizontalShift)

KbdHalfPageForward == KbdSwitch /\ KbdForward(countLinesFitting(termH) \div 2)

KbdJumpToEnd == KbdSwitch /\ KbdMove(seekEnd(file, pos, termH), horizontalShift)

KbdJumpToStart == KbdSwitch /\ KbdMove(seekStart(file, pos), horizontalShift)

KbdOtherKey == KbdSwitch /\ KbdMove(pos, horizontalShift)

\* break outerLoop: the loop is left with the lock held
KbdQuit ==
    /\ KbdSwitch
    /\ kbd' = "quit"
    /\ UNCHANGED <<file, pos, horizontalShift, maxWidth, prevPrintableLines,
                   prevIsNil, termW, termH, buffer, sigPending, panicked,
                   lock, sigpc, fwdLines, fwdLeft>>

\* a digit: handleLineJump waits for the next key with the lock held
KbdDigit(d) ==
    /\ KbdSwitch
    /\ kbd' = "jump"
    /\ buffer' = d
    /\ UNCHANGED <<file, pos, horizontalShift, maxWidth, prevPrintableLines,
                   prevIsNil, termW, termH, sigPending, panicked,
                   lock, sigpc, fwdLines, fwdLeft>>

KbdJump == kbd = "jump" /\ ~panicked

KbdDigitMore(d) ==
    /\ KbdJump
    /\ buffer * 10 + d <= MaxJumpN
    /\ buffer' = buffer * 10 + d
    /\ UNCHANGED <<file, pos, horizontalShift, maxWidth, prevPrintableLines,
                   prevIsNil, termW, termH, kbd, sigPending, panicked,
                   lock, sigpc, fwdLines, fwdLeft>>

KbdJumpDown == KbdJump /\ KbdForward(buffer)

KbdJumpUp == KbdJump /\ KbdMove(seekBackwardN(file, pos, buffer), horizontalShift)

KbdJumpOther == KbdJump /\ KbdMove(pos, horizontalShift)

\* one turn of "for i := 0; i < n; i++ { p.seekForwardLine() }"
ForwardStep ==
    /\ kbd = "forward" /\ ~panicked
    /\ pos' = seekForwardLine(file, pos)
    /\ fwdLeft' = fwdLeft - 1
    /\ kbd' = IF fwdLeft = 1 THEN "backoff" ELSE "forward"
    /\ UNCHANGED <<file, horizontalShift, maxWidth, prevPrintableLines,
                   prevIsNil, termW, termH, buffer, sigPending, panicked,
                   lock, sigpc, fwdLines>>

\* one test of "for p.countLinesAvailable() < lines", with its turn of
\* p.seekBackLine() or the end of seekForwardN
BackOffStep ==
    /\ kbd = "backoff" /\ ~panicked
    /\ IF countLinesAvailable(file, pos, termH) < fwdLines
         THEN /\ pos' = seekBackLine(file, countLinesAvailableOffset(file, pos, termH))
              /\ UNCHANGED <<kbd, fwdLines>>
         ELSE /\ pos' = countLinesAvailableOffset(file, pos, termH)
              /\ kbd' = "render"
              /\ fwdLines' = 0
    /\ UNCHANGED <<file, horizontalShift, maxWidth, prevPrintableLines,
                   prevIsNil, termW, termH, buffer, sigPending, panicked,
                   lock, sigpc, fwdLeft>>

\* pager.renderCSVWindow(); pager.Unlock() at the end of the loop body
KbdRender ==
    /\ kbd = "render" /\ ~panicked
    /\ Render(pos, horizontalShift)
    /\ lock' = "free"
    /\ kbd' = "idle"
    /\ UNCHANGED <<file, termW, termH, buffer, sigPending, sigpc, fwdLines, fwdLeft>>

\* handleSignals: SIGWINCH received from sigChan
SigRecv ==
    /\ sigpc = "recv" /\ sigPending /\ kbd # "quit" /\ ~panicked
    /\ sigPending' = FALSE
    /\ sigpc' = "lock"
    /\ UNCHANGED <<file, pos, horizontalShift, maxWidth, prevPrintableLines,
                   prevIsNil, termW, termH, kbd, buffer, panicked,
                   lock, fwdLines, fwdLeft>>

\* handleSignals: pager.Lock() returned
SigLock ==
    /\ sigpc = "lock" /\ kbd # "quit" /\ ~panicked
    /\ canLock(lock)
    /\ lock' = "sig"
    /\ sigpc' = "render"
    /\ UNCHANGED <<file, pos, horizontalShift, maxWidth, prevPrintableLines,
                   prevIsNil, termW, termH, kbd, buffer, sigPending, panicked,
                   fwdLines, fwdLeft>>

\* handleSignals: pager.renderCSVWindow(); pager.Unlock()
SigRender ==
    /\ sigpc = "render" /\ kbd # "quit" /\ ~panicked
    /\ Render(pos, horizontalShift)
    /\ lock' = "free"
    /\ sigpc' = "recv"
    /\ UNCHANGED <<file, termW, termH, kbd, buffer, sigPending, fwdLines, fwdLeft>>

NextStep ==
    \/ FirstRender
    \/ KbdLock
    \/ KbdLineBackward
    \/ KbdLineForward
    \/ KbdPanLeft
    \/ KbdPanRight
    \/ KbdPageForward
    \/ KbdPageBackward
    \/ KbdHalfPageForward
    \/ KbdJumpToEnd
    \/ KbdJumpToStart
    \/ KbdOtherKey
    \/ KbdQuit
    \/ \E d \in 0..MaxJumpN : KbdDigit(d)
    \/ \E d \in 0..MaxJumpN : KbdDigitMore(d)
    \/ KbdJumpDown
    \/ KbdJumpUp
    \/ KbdJumpOther
    \/ ForwardStep
    \/ BackOffStep
    \/ KbdRender
    \/ SigRecv
    \/ SigLock
    \/ SigRender
    \/ \E h \in 1..MaxTermH : TermResize(termW, h)

SpecStep == InitStep /\ [][NextStep]_vars

(***************************************************************************)
(* SpecStepLive: SpecStep with its scheduling.  handleSignals is a         *)
(* goroutine of its own: it takes a signal that waits in the channel       *)
(* (weak fairness of SigRecv) and, blocked in pager.Lock(), it gets a      *)
(* mutex that is free again and again, since sync.Mutex hands over to a    *)
(* starving waiter (strong fairness of SigLock).  The keyboard goroutine   *)
(* runs on whenever it is inside a command: again and again it is back in  *)
(* keyboard.GetKey, or the program has ended.  Keys are typed by the user, *)
(* or not: nothing makes GetKey return.                                    *)
(***************************************************************************)
KbdWaits == kbd \in {"idle", "jump", "quit"} \/ panicked

SpecStepLive ==
    /\ InitStep /\ [][NextStep]_vars
    /\ WF_vars(SigRecv)
    /\ SF_vars(SigLock)
    /\ []<>KbdWaits

(***************************************************************************)
(* Vocabulary of the properties.                                           *)
(***************************************************************************)
\* offset p is 0 or immediately follows a newline byte
LineStart(f, p) == p = 0 \/ f[p] = "NL"

\* every record of the file, in order
AllRecords(f) == csvRead(f, 0, Len(f))

\* the last k records of the file (all of them when it has fewer)
LastRecords(f, k) ==
    LET all == AllRecords(f)
        n   == min(k, Len(all))
    IN  SubSeq(all, Len(all) - n + 1, Len(all))

\* the logical lines of the file: newline-terminated ones and a last open one
NumLines(f) ==
    Cardinality({i \in 1..Len(f) : f[i] = "NL"})
        + (IF Len(f) > 0 /\ f[Len(f)] # "NL" THEN 1 ELSE 0)

\* keyboardHandler waits for a key and the last render used the present
\* size, offset, shift and widths
Fresh == kbd = "idle" /\ ~sigPending /\ ~panicked

\* the window readLines reads at the cursor
CurrentWindow == csvRead(file, pos, countLinesFitting(termH))

\* the unclipped width of the table
TableLength == countMaxJoinedLength(maxWidth)

(***************************************************************************)
(* C1  round trip of lineForward(n) and lineBackward(n)                    *)
(***************************************************************************)
RoundTrip(f, p, n, h) == seekBackwardN(f, seekForwardN(f, p, n, h), n)

\* some forward step ended at the end of the file, or some backward step at 0
HitBoundary(f, p, n, h) ==
    \/ \E i \in 1..n : forwardLines(f, p, i) = Len(f)
    \/ \E i \in 1..n : seekBackwardN(f, seekForwardN(f, p, n, h), i) = 0

\* seekForwardN stepped back after its n forward steps
BackedOff(f, p, n, h) ==
    countLinesAvailable(f, forwardLines(f, p, n), h) < countLinesAvailable(f, p, h)

\* C1 as stated: from a cursor at a line start, lineForward(n) followed by
\* lineBackward(n) returns to the starting offset unless a step hit the start
\* or the end of the file.
C1_RoundTripUnlessBoundary ==
    (kbd = "idle" /\ ~panicked /\ LineStart(file, pos)) =>
        \A n \in 0..MaxJumpN :
            \/ RoundTrip(file, pos, n, termH) = pos
            \/ HitBoundary(file, pos, n, termH)

\* C1 amended: from a cursor at a line start, lineForward(n) followed by
\* lineBackward(n) returns to the starting offset unless a step hit the start
\* or the end of the file or lineForward stepped back to keep the window
\* as populated as it was (the back-off loop of seekForwardN).
C1_RoundTripUnlessBoundaryOrBackOff ==
    (kbd = "idle" /\ ~panicked /\ LineStart(file, pos)) =>
        \A n \in 0..MaxJumpN :
            \/ RoundTrip(file, pos, n, termH) = pos
            \/ HitBoundary(file, pos, n, termH)
            \/ BackedOff(file, pos, n, termH)

\* C1 witness: a cursor past the first line from which one line forward moves
\* on without reaching the end and one line backward comes back to it.
C1_Witness ==
    /\ kbd = "idle" /\ ~panicked /\ pos >= 2 /\ LineStart(file, pos)
    /\ seekForwardN(file, pos, 1, termH) > pos
    /\ seekForwardN(file, pos, 1, termH) < Len(file)
    /\ ~HitBoundary(file, pos, 1, termH)
    /\ ~BackedOff(file, pos, 1, termH)
    /\ RoundTrip(file, pos, 1, termH) = pos

(***************************************************************************)
(* C2  the cursor is at a line start                                       *)
(***************************************************************************)
\* C2 as stated: after any sequence of commands and resizes the cursor
\* offset is 0 or immediately follows a newline byte.
C2_CursorAtLineStart == LineStart(file, pos)

\* C2 amended: after any sequence of commands and resizes the cursor offset
\* is 0, immediately follows a newline byte, or is the end of the file.
C2_CursorAtLineStartOrEnd == LineStart(file, pos) \/ pos = Len(file)

\* C2 witness: navigation has left the cursor inside the file, past the
\* first line, on the first byte of a line.
C2_Witness ==
    /\ kbd = "idle" /\ ~panicked
    /\ pos > 0 /\ pos < Len(file)
    /\ file[pos] = "NL" /\ file[pos + 1] # "NL"

(***************************************************************************)
(* C3  jumpToEnd shows the last page                                       *)
(***************************************************************************)
\* C3: after jumpToEnd with room for at least one record, the cursor is at a
\* line start and the window read from it holds the last records of the
\* file, as many as fit, up to and including the last one.
C3_JumpToEndShowsLastPage ==
    [][(JumpToEnd /\ termH >= 2) =>
          /\ LineStart(file, pos')
          /\ csvRead(file, pos', countLinesFitting(termH))
               = LastRecords(file, countLinesFitting(termH))]_vars

(***************************************************************************)
(* C4  a digit-prefixed jump equals single steps                           *)
(***************************************************************************)
RECURSIVE singleForwards(_, _, _, _)
\* n commands lineForward(1), each with its own back-off
singleForwards(f, p, n, h) ==
    IF n <= 0 THEN p ELSE singleForwards(f, seekForwardN(f, p, 1, h), n - 1, h)

RECURSIVE singleBackwards(_, _, _)
\* n commands lineBackward(1)
singleBackwards(f, p, n) ==
    IF n <= 0 THEN p ELSE singleBackwards(f, seekBackwardN(f, p, 1), n - 1)

\* C4: when the digits of n were typed at a cursor at a line start, the
\* down key moves the cursor where n single-line forward commands would
\* move it, and the up key where n single-line backward commands would.
C4_JumpEqualsSingleSteps ==
    [][(kbd = "jump" /\ LineStart(file, pos)) =>
          /\ JumpDown => pos' = singleForwards(file, pos, buffer, termH)
          /\ JumpUp => pos' = singleBackwards(file, pos, buffer)]_vars

(***************************************************************************)
(* C5  lineBackward clamps at offset 0                                     *)
(***************************************************************************)
\* C5: jumpToStart, jumpToEnd and then more single lineBackward steps than
\* the file has lines leave the cursor at offset 0; no step goes below 0 and
\* a further lineBackward stays at 0.
C5_ClampAtStart ==
    LET e == seekEnd(file, seekStart(file, pos), termH)
        n == NumLines(file)
    IN  /\ \A k \in 0..(n + 2) : seekBackwardN(file, e, k) >= 0
        /\ seekBackwardN(file, e, n + 1) = 0
        /\ seekBackwardN(file, e, n + 2) = 0

\* C5 witness: after jumpToEnd the cursor is past offset 0 in a file of
\* several lines, so the backward steps have a way to go.
C5_Witness ==
    /\ kbd = "idle" /\ ~panicked /\ pos > 0
    /\ pos = seekEnd(file, seekStart(file, pos), termH)
    /\ NumLines(file) >= 3
    /\ seekBackwardN(file, pos, 1) > 0
    /\ seekBackwardN(file, pos, NumLines(file) + 1) = 0

(***************************************************************************)
(* C6  the frame of an empty window                                        *)
(***************************************************************************)
\* C6: when the window read at the cursor has no record and the terminal
\* has at least two rows, the lines printed are exactly the header border
\* line followed by the footer border line.
C6_EmptyWindowFrame ==
    (Fresh /\ termH >= 2 /\ CurrentWindow = <<>>) =>
        prevPrintableLines =
            <<truncate(getTableHeaderLine(maxWidth), horizontalShift, termW),
              truncate(getTableFooterLine(maxWidth), horizontalShift, termW)>>

(***************************************************************************)
(* C7  the table is closed                                                 *)
(***************************************************************************)
\* C7: with at least two terminal rows, the last line printed is the footer
\* border line, whatever the window and the parity of the height.
C7_LastLineIsFooter ==
    (Fresh /\ termH >= 2) =>
        /\ prevPrintableLines # <<>>
        /\ prevPrintableLines[Len(prevPrintableLines)]
             = truncate(getTableFooterLine(maxWidth), horizontalShift, termW)

(***************************************************************************)
(* C8  the column metrics and the current window                           *)
(***************************************************************************)
\* the largest member of a finite set of naturals, 0 for the empty set
SetMax(S) == IF S = {} THEN 0 ELSE CHOOSE x \in S : \A y \in S : y <= x

\* the largest field count among the records of the current window
WindowColumns == SetMax({Len(CurrentWindow[k]) : k \in 1..Len(CurrentWindow)})

\* the widest field of column i among the records of the current window
WindowWidth(i) ==
    SetMax({Len(CurrentWindow[k][i]) :
               k \in {j \in 1..Len(CurrentWindow) : Len(CurrentWindow[j]) >= i}})

C9_LinesFillWidth ==
    (Fresh /\ termW < TableLength /\ termW <= TableLength - horizontalShift) =>
        \A i \in 1..Len(prevPrintableLines) : Len(prevPrintableLines[i]) = termW

\* C9 amended: when the terminal is narrower than the table, every line
\* printed is at most as long as the terminal is wide; the first line, a
\* border line, has the width of the terminal or what the table has left
\* after horizontalShift, whichever is less, and the data row of a record
\* with fewer fields than the widest may be shorter.
C9_LinesWithinWidth ==
    (Fresh /\ termW < TableLength) =>
        /\ \A i \in 1..Len(prevPrintableLines) : Len(prevPrintableLines[i]) <= termW
        /\ Len(prevPrintableLines[1]) = min(termW, TableLength - horizontalShift)

\* C9 witness: a table wider than the terminal with a line cut to the width
\* of the terminal and a data row that ends before it.
C9_Witness ==
    /\ Fresh /\ termW < TableLength
    /\ \E i \in 1..Len(prevPrintableLines) : Len(prevPrintableLines[i]) = termW
    /\ \E i \in 1..Len(prevPrintableLines) :
          /\ Len(prevPrintableLines[i]) < termW
          /\ Len(prevPrintableLines[i]) > 0

(***************************************************************************)
(* C10  panning right converges                                            *)
(***************************************************************************)
\* C10: with a table wider than the terminal, once the right arrow no longer
\* changes horizontalShift the table has exactly the width of the terminal
\* left after horizontalShift.
C10_PanRightEndsExact ==
    (kbd = "idle" /\ ~panicked /\ TableLength > termW
        /\ moveToRight(horizontalShift, maxWidth, termW).shift = horizontalShift) =>
        TableLength - horizontalShift = termW

(***************************************************************************)
(* C11  panning left has a floor                                           *)
(***************************************************************************)
\* C11: whenever keyboardHandler waits for a key, the left arrow completes
\* without failure, never makes horizontalShift negative, leaves a shift of
\* 0 at 0 and lowers every other shift, so that repeated left arrows reach 0
\* after finitely many steps.
C11_PanLeftFloor ==
    (kbd = "idle" /\ ~panicked) =>
        LET m == moveToLeft(horizontalShift, maxWidth)
        IN  /\ m.ok
            /\ m.shift >= 0
            /\ (horizontalShift = 0 => m.shift = 0)
            /\ (horizontalShift > 0 => m.shift < horizontalShift)

(***************************************************************************)
(* C12  rendering is total                                                 *)
(***************************************************************************)
\* C12: in every state after the first render, horizontalShift is at most
\* the unclipped length of the border lines and the renderer produces its
\* lines at the cursor, shift and terminal size of the state without a slice
\* expression out of range.
C12_RenderTotal ==
    kbd # "start" =>
        /\ horizontalShift <= TableLength
        /\ renderCSVWindow(file, pos, horizontalShift, maxWidth, termW, termH).ok

(***************************************************************************)
(* C16  seekBackLine and the previous logical line                         *)
(***************************************************************************)
\* the start of the logical line before the one that starts at p: the last
\* line start below p, 0 when there is none
PrevLineStart(f, p) == SetMax({q \in 0..(p - 1) : LineStart(f, q)})

\* C16: from a cursor at a line start, seekBackLine returns the start of the
\* immediately preceding logical line, empty or not, and 0 when the cursor
\* is on the first line; it never returns an offset below 0.
C16_SeekBackLineToPreviousLine ==
    (kbd = "idle" /\ ~panicked /\ LineStart(file, pos)) =>
        /\ seekBackLine(file, pos) >= 0
        /\ seekBackLine(file, pos) = PrevLineStart(file, pos)

(***************************************************************************)
(* C17  seekForwardLine and the next logical line                          *)
(***************************************************************************)
\* the smallest member of a non-empty finite set of naturals
SetMin(S) == CHOOSE x \in S : \A y \in S : x <= y

\* the offset just past the first newline at or after p that is followed by
\* at least one more byte, the end of the file when there is none
NextLineStart(f, p) ==
    LET S == {q \in (p + 1)..(Len(f) - 1) : f[q] = "NL"}
    IN  IF S = {} THEN Len(f) ELSE SetMin(S)

\* C17: from the cursor, seekForwardLine returns the start of the
\* immediately following logical line, empty or not, and the end of the
\* file when no newline followed by a byte is left; on an empty file 0.
C17_SeekForwardLineToNextLine ==
    (kbd = "idle" /\ ~panicked) =>
        /\ seekForwardLine(file, pos) <= Len(file)
        /\ seekForwardLine(file, pos) = NextLineStart(file, pos)

(***************************************************************************)
(* C19  a pan step is one column                                           *)
(***************************************************************************)
\* the offset of the border character in front of column i (0-based); for
\* i = len(maxWidth) the offset of the final border character
ColumnStart(mw, i) == sum(SubSeq(mw, 1, i)) + i

\* C19: whenever the right arrow changes horizontalShift and the table is
\* drawn at the new shift, the shift has grown by the width, plus one border
\* character, of the column it sat in, and a left arrow pressed next puts
\* the shift back where it was.
C19_PanStepOneColumn ==
    (Fresh /\ maxWidth # <<>>) =>
        LET r == moveToRight(horizontalShift, maxWidth, termW)
        IN  (/\ r.ok
             /\ r.shift # horizontalShift
             /\ renderCSVWindow(file, pos, r.shift, maxWidth, termW, termH).ok) =>
                /\ \E i \in 0..(Len(maxWidth) - 1) :
                      /\ ColumnStart(maxWidth, i) <= horizontalShift
                      /\ horizontalShift < ColumnStart(maxWidth, i + 1)
                      /\ r.shift = horizontalShift + maxWidth[i + 1] + 1
                /\ moveToLeft(r.shift, maxWidth).ok
                /\ moveToLeft(r.shift, maxWidth).shift = horizontalShift

(***************************************************************************)
(* C20  forward moves are monotone                                         *)
(***************************************************************************)
\* C20: from a cursor at a line start, lineForward(n) with its back-off
\* leaves the cursor at an offset that is at least the offset it started
\* from, for every n.
C20_ForwardMonotone ==
    (kbd = "idle" /\ ~panicked /\ LineStart(file, pos)) =>
        \A n \in 0..MaxJumpN : seekForwardN(file, pos, n, termH) >= pos

(***************************************************************************)
(* C18  window reads leave the cursor where it was                         *)
(***************************************************************************)
\* C18: at every cursor the program reaches and for every terminal height,
\* the file offset after readLines and after countLinesAvailable is the
\* offset before the call, whether the read ended at the capacity of the
\* window or at the end of the file.
C18_ReadsKeepCursor ==
    (kbd = "idle" /\ ~panicked) =>
        \A h \in 1..MaxTermH :
            /\ readLines(file, pos, h, maxWidth).pos = pos
            /\ countLinesAvailableOffset(file, pos, h) = pos

\* C18 witness: a cursor past the first line from which, at one height, the
\* read ends with the window full and, at another, ends early at the end of
\* the file; both times the reader has moved the file offset away from the
\* cursor.
C18_Witness ==
    /\ kbd = "idle" /\ ~panicked /\ pos > 0
    /\ \E h \in 1..MaxTermH :
          /\ countLinesFitting(h) >= 1
          /\ Len(readLines(file, pos, h, maxWidth).res) = countLinesFitting(h)
          /\ readerOffset(file, pos, countLinesFitting(h)) # pos
    /\ \E h \in 1..MaxTermH :
          /\ Len(readLines(file, pos, h, maxWidth).res) < countLinesFitting(h)
          /\ readerOffset(file, pos, countLinesFitting(h)) # pos

(***************************************************************************)
(* C13  a resize is eventually rendered                                    *)
(***************************************************************************)
\* C13: every SIGWINCH delivered while the program runs is eventually
\* followed by handleSignals holding the lock for its re-render, without
\* any further key, wherever the keyboard goroutine stands (the program
\* having left its loop or having failed aside).
C13_ResizeEventuallyRendered ==
    sigPending ~> (sigpc = "render" \/ kbd = "quit" \/ panicked)

(***************************************************************************)
(* C14  mutual exclusion of the two handlers                               *)
(***************************************************************************)
\* the keyboard goroutine is between pager.Lock() and pager.Unlock()
KbdInside == kbd \in {"switch", "forward", "backoff", "render", "jump", "quit"}

\* handleSignals is between pager.Lock() and pager.Unlock()
SigInside == sigpc = "render"

\* the session state the lock protects
session == <<pos, horizontalShift, maxWidth, prevPrintableLines, prevIsNil>>

\* C14: the keyboard goroutine and handleSignals are never both between
\* Lock and Unlock; whoever is there holds the lock; the re-render of
\* handleSignals runs only while the keyboard goroutine is between two
\* commands; and after the first render every step that changes the file
\* position, horizontalShift, the column widths or the lines printed last
\* is taken with the lock held.
C14_MutualExclusion ==
    /\ [](/\ ~(KbdInside /\ SigInside)
          /\ KbdInside => lock = "kbd"
          /\ SigInside => (lock = "sig" /\ kbd = "idle"))
    /\ [][(kbd # "start" /\ session' # session) => lock # "free"]_vars

\* C14 witness: SIGWINCH was received and handleSignals waits for the lock
\* while a keyboard command has moved the cursor and has not rendered yet.
C14_Witness ==
    /\ kbd = "render" /\ lock = "kbd" /\ sigpc = "lock" /\ ~panicked
    /\ pos > 0
    /\ prevPrintableLines #
          renderCSVWindow(file, pos, horizontalShift, maxWidth, termW, termH).printableLines

(***************************************************************************)
(* C15  navigation commands terminate                                      *)
(***************************************************************************)
\* C15: the back-off loop of seekForwardN, the one loop of the navigation
\* commands without a counter, comes to its end whatever the terminal's
\* height has become meanwhile: whenever its test is about to run, either
\* enough records are available at the cursor and it ends, or seekBackLine
\* lowers the cursor, which it can do only as many times as the file has
\* bytes.
C15_BackOffProgress ==
    (kbd = "backoff" /\ ~panicked) =>
        \/ countLinesAvailable(file, pos, termH) >= fwdLines
        \/ seekBackLine(file, pos) < pos

(***************************************************************************)
(* C21  the terminal shows exactly the current frame                       *)
(***************************************************************************)
RECURSIVE trimRight(_)
\* a line without the blank cells at its end
trimRight(s) ==
    IF s # <<>> /\ s[Len(s)] = "SP" THEN trimRight(SubSeq(s, 1, Len(s) - 1))
    ELSE s

\* what row r of the window of terminal t shows
ShownLine(t, r, width) == trimRight(SubSeq(t.cells[r], 1, width))

\* what row r shows when the terminal holds exactly the frame lines
FrameLine(lines, r) ==
    IF r <= Len(lines) THEN trimRight(lines[r]) ELSE <<>>

\* a terminal that shows exactly the frame lines, the cursor after its end
ShowingFrame(lines, width, height) ==
    printJoined(blankTerm, lines, width, height)

\* C21: when a key read in keyboardHandler is handled while the terminal
\* shows exactly the previous frame, then after the render, whether or not
\* it cleared the terminal first, every row of the terminal shows the
\* printable line the render produced for it and the rows below the frame
\* show nothing: no character of the previous frame is left, also where a
\* data row is shorter than the row drawn before it on the same line.
C21_ScreenShowsFrame ==
    [][(Fresh /\ Fresh') =>
          \A r \in 1..termH :
              ShownLine(drawWindow(ShowingFrame(prevPrintableLines,
                                                termW, termH),
                                   prevIsNil, prevPrintableLines,
                                   prevPrintableLines', termW, termH),
                        r, termW)
              = FrameLine(prevPrintableLines', r)]_vars

====
